---- MODULE Spec2Model ----
(***************************************************************************)
(* Progression engine of epic-quest-todo: the todos router                 *)
(* (server/src/routes/todos.ts) and the stats router with its achievement  *)
(* evaluator (routes/stats.ts, held in server/src/index.ts:49-164) over    *)
(* the sqlite store (server/src/models/database.ts).                       *)
(*                                                                         *)
(* Every db.get / db.run of a handler is one step of the model: the        *)
(* statement executes atomically in sqlite and its callback runs with the  *)
(* result.  Steps of different requests interleave freely.  A db.run       *)
(* issued without a callback (the level update) stays pending and is       *)
(* applied by the store at any later moment, in any order.                 *)
(***************************************************************************)
EXTENDS Integers, FiniteSets, Sequences, TLC

\* ------------------------------------------------------------------ bounds
NumUsers == 2
MaxTodos == 2
MaxReqs == 2
MaxStats == 2
MaxExperience == 400
MaxAuth == 2

Users   == 1..NumUsers
TodoIds == 1..MaxTodos
Reqs    == 1..MaxReqs
StatReqs == 1..MaxStats
AuthReqs == 1..MaxAuth

\* experience a user may already have accumulated when the run starts
InitExperiences == {0, 95}

\* the difficulties the create requests draw: the smallest and the largest award
Difficulties == {"easy", "epic"}

\* --------------------------------------------------------------- constants
LevelBand == 100

NoTodo == [absent |-> TRUE]
NoResp == [status |-> 0]

VARIABLES
  blockScoped,   \* build: TRUE when `const newLevel` stays block scoped in the emitted JS
  users,         \* users table: id -> [level, experience, streak_days]
  todos,         \* todos table: id -> row, or NoTodo
  lastID,        \* AUTOINCREMENT counter of todos
  req,           \* complete requests: closure variables and position in the callback chain
  pendingLevel,  \* level updates issued by db.run without callback, not yet executed
  lastDelete,    \* the last delete request and its response
  initExp,       \* history: the experience each user started with
  lastCreate,    \* the response of the last create request
  unlocks,       \* user_achievements table: user -> achievement -> number of rows
  sreq,          \* stats requests: closure variables and position in the callback chain
  pendingQuery,  \* catalog queries issued by checkAchievements, not yet executed
  pendingInsert, \* unlock INSERTs issued by db.run without callback, not yet executed
  accounts,      \* users table, identity columns: id -> [username, email, password, last_login]
  areq,          \* register and login requests: closure variables and position
  pendingLogin   \* last_login updates issued by db.run without callback, not yet executed

statsVars == <<unlocks, sreq, pendingQuery, pendingInsert>>

authVars == <<accounts, areq, pendingLogin>>

vars == <<blockScoped, users, todos, lastID, req, pendingLevel, lastDelete, initExp,
          lastCreate, statsVars, authVars>>

\* ------------------------------------------------------------ pure helpers

\* todos.ts:26-31  expPoints is an object literal: besides its four own keys
\* a lookup finds the properties inherited from Object.prototype, which are
\* functions.
ObjectPrototypeKeys == {"toString", "constructor"}

\* Stands for a looked-up value that is not a number (an inherited function):
\* truthy, so `|| 10` keeps it; JSON.stringify drops the key that holds it.
NotANumber == -1

\* todos.ts:26-36  expPoints[difficulty] || 10
expPoints(difficulty) ==
  CASE difficulty = "easy"   -> 5
    [] difficulty = "medium" -> 10
    [] difficulty = "hard"   -> 20
    [] difficulty = "epic"   -> 50
    [] difficulty \in ObjectPrototypeKeys -> NotANumber
    [] OTHER                 -> 10

\* todos.ts:96  Math.floor(user.experience / 100) + 1
Level(experience) == (experience \div LevelBand) + 1

\* mutant: the comparison lets an unchanged level pass
ExceedsOrEqualsStored(newLevel, storedLevel) == newLevel >= storedLevel

\* todos.ts:97 and 109  newLevel > user.level
ExceedsStored(newLevel, storedLevel) == newLevel > storedLevel

\* mutant: the lookup forgets the owner (WHERE id = ?)
SelectTodoAnyOwner(tbl, id, userId) ==
  IF id \in DOMAIN tbl /\ tbl[id] # NoTodo THEN tbl[id] ELSE NoTodo

\* todos.ts:61  SELECT * FROM todos WHERE id = ? AND user_id = ?
SelectTodo(tbl, id, userId) ==
  IF id \in DOMAIN tbl /\ tbl[id] # NoTodo /\ tbl[id].user_id = userId
  THEN tbl[id] ELSE NoTodo

\* mutant: the callback does not look at todo.completed
LookupOutcomeNoConflict(todo) ==
  IF todo = NoTodo THEN "notfound" ELSE "proceed"

\* todos.ts:64-70  the two early returns of the lookup callback
LookupOutcome(todo) ==
  IF todo = NoTodo THEN "notfound"
  ELSE IF todo.completed THEN "conflict"
  ELSE "proceed"

\* mutant: the statement flips the flag (completed = NOT completed)
MarkCompletedToggle(tbl, id) ==
  IF id \in DOMAIN tbl /\ tbl[id] # NoTodo
  THEN [tbl EXCEPT ![id].completed = ~@, ![id].completed_at = @ + 1]
  ELSE tbl

\* todos.ts:74  UPDATE todos SET completed = 1, completed_at = CURRENT_TIMESTAMP WHERE id = ?
\* completed_at is 0 for NULL and otherwise counts the timestamps written to
\* the row: every write of CURRENT_TIMESTAMP makes it a new value.
MarkCompleted(tbl, id) ==
  IF id \in DOMAIN tbl /\ tbl[id] # NoTodo
  THEN [tbl EXCEPT ![id].completed = TRUE, ![id].completed_at = @ + 1]
  ELSE tbl

\* rows changed by the UPDATE of todos.ts:74 (the callback does not look at it)
MarkChanges(tbl, id) ==
  IF id \in DOMAIN tbl /\ tbl[id] # NoTodo THEN 1 ELSE 0

\* mutant: the statement subtracts the points
AddExperienceSubtract(stored, points) == stored - points

\* mutant: the statement sets the column instead of adding to it
AddExperienceOverwrite(stored, points) == points

\* todos.ts:83  UPDATE users SET experience = experience + ? WHERE id = ?
AddExperience(stored, points) == stored + points

\* mutant: the DELETE forgets the owner (WHERE id = ?)
\* mutant: the DELETE matches no row
DeleteWhereNothing(tbl, id, userId) == {}

DeleteWhereAnyOwner(tbl, id, userId) ==
  {i \in DOMAIN tbl : tbl[i] # NoTodo /\ i = id}

\* todos.ts:124  the rows matched by DELETE FROM todos WHERE id = ? AND user_id = ?
DeleteWhere(tbl, id, userId) ==
  {i \in DOMAIN tbl : tbl[i] # NoTodo /\ i = id /\ tbl[i].user_id = userId}

\* history: what the id named for the caller when the statement ran
TargetKind(tbl, id, userId) ==
  IF id \notin DOMAIN tbl \/ tbl[id] = NoTodo THEN "absent"
  ELSE IF tbl[id].user_id = userId THEN "own" ELSE "foreign"

\* ---------------------------------------------------------------- responses
\* todos.ts:65 and 131
NotFound   == [status |-> 404, message |-> "Todo not found"]
\* todos.ts:69
Conflict   == [status |-> 400, message |-> "Todo already completed"]
\* todos.ts:133
DeletedOk  == [status |-> 200, message |-> "Todo deleted successfully"]

\* todos.ts:105-110
Completed(gained, newExp, lvlUp) ==
  [status |-> 200, message |-> "Todo completed!",
   experienceGained |-> gained, newExperience |-> newExp, levelUp |-> lvlUp]

\* todos.ts:42-50
Created(id, difficulty, points) ==
  [status |-> 201, id |-> id, difficulty |-> difficulty,
   experience_points |-> points, completed |-> FALSE]

\* A request that has not arrived.  userId, todoId and todo are the closure
\* variables of the handler; the other fields are history.
IdleReq ==
  [pc |-> "idle", userId |-> 0, todoId |-> 0, todo |-> NoTodo, resp |-> NoResp,
   kind |-> "none",        \* what todoId named for the caller at the lookup
   startExp |-> 0,         \* the caller's stored experience at the lookup
   startLevel |-> 0,       \* the caller's stored level at the lookup
   changes |-> 0,          \* rows changed by the mark-completed UPDATE
   awarded |-> FALSE,      \* the experience UPDATE has run
   expBefore |-> 0,        \* stored experience right before that UPDATE
   expAfter |-> 0,         \* stored experience right after it
   overlapped |-> FALSE,   \* another completion of the same user was under way meanwhile
   markFailed |-> FALSE]   \* the mark-completed UPDATE called back with an error

\* the callback chain of q is running
InFlight(q) == req[q].pc \in {"marking", "awarding", "reading"}

\* q is running or its level update has not reached the store yet
UnderWay(q) == InFlight(q) \/ \E w \in pendingLevel : w.req = q

\* ----------------------------------------------------------------- catalog
\* database.ts:70-79  the seeded achievements, ids 1..7 in insertion order
Achievements ==
  << [name |-> "First Step",   type |-> "tasks_completed", required_value |-> 1],
     [name |-> "Task Master",  type |-> "tasks_completed", required_value |-> 10],
     [name |-> "Unstoppable",  type |-> "tasks_completed", required_value |-> 50],
     [name |-> "Week Warrior", type |-> "streak",          required_value |-> 7],
     [name |-> "Month Master", type |-> "streak",          required_value |-> 30],
     [name |-> "Level 5",      type |-> "level",           required_value |-> 5],
     [name |-> "Level 10",     type |-> "level",           required_value |-> 10] >>

AchIds == DOMAIN Achievements

AchTypes == {"tasks_completed", "streak", "level"}

\* index.ts:113-116, 130-133, 147-150
\* SELECT * FROM achievements WHERE type = ? AND required_value <= ?
\*   AND id NOT IN (SELECT achievement_id FROM user_achievements WHERE user_id = ?)
\* mutant: the threshold test is < instead of <=
DueAchievementsStrict(type, value, userId, ul) ==
  {a \in AchIds : /\ Achievements[a].type = type
                  /\ Achievements[a].required_value < value
                  /\ ul[userId][a] = 0}

\* mutant: the query forgets the NOT IN (... user_achievements ...) clause
DueAchievementsNoExclusion(type, value, userId, ul) ==
  {a \in AchIds : /\ Achievements[a].type = type
                  /\ Achievements[a].required_value <= value}

DueAchievements(type, value, userId, ul) ==
  {a \in AchIds : /\ Achievements[a].type = type
                  /\ Achievements[a].required_value <= value
                  /\ ul[userId][a] = 0}

\* mutant: the listing forgets WHERE user_id = ?
ListTodosAnyUser(tbl, userId) == {i \in DOMAIN tbl : tbl[i] # NoTodo}

\* todos.ts:9-12  SELECT * FROM todos WHERE user_id = ? : the ids of the rows listed
ListTodos(tbl, userId) ==
  {i \in DOMAIN tbl : tbl[i] # NoTodo /\ tbl[i].user_id = userId}

\* index.ts:67-69  SELECT COUNT(*) FROM todos WHERE user_id = ? AND completed = 1
CompletedCount(tbl, userId) ==
  Cardinality({i \in DOMAIN tbl :
                 tbl[i] # NoTodo /\ tbl[i].user_id = userId /\ tbl[i].completed})

\* mutant: the handler sends an empty list
ListAchievementsNone(ul, userId) == [a \in AchIds |-> 0]

\* mutant: the join forgets WHERE ua.user_id = ?
ListAchievementsAnyUser(ul, userId) ==
  [a \in AchIds |-> IF \E u \in DOMAIN ul : ul[u][a] > 0 THEN 1 ELSE 0]

\* index.ts:74-78  SELECT a.* FROM achievements a JOIN user_achievements ua ...
\* WHERE ua.user_id = ?  : one row per unlock row, so achievement -> number of rows
ListAchievements(ul, userId) == ul[userId]

\* database.ts:74
WeekWarrior == CHOOSE a \in AchIds : Achievements[a].name = "Week Warrior"

\* mutant: the remainder taken once more, 0 at a multiple of the band
ExperienceToNextLevelWrapped(experience) ==
  (LevelBand - (experience % LevelBand)) % LevelBand

\* index.ts:94
ExperienceToNextLevel(experience) == LevelBand - (experience % LevelBand)

\* index.ts:87-101
StatsBody(user, completedCount, achievements) ==
  [status |-> 200,
   level |-> user.level, experience |-> user.experience, streak_days |-> user.streak_days,
   experienceToNextLevel |-> ExperienceToNextLevel(user.experience),
   totalTodos |-> completedCount, currentStreak |-> user.streak_days,
   achievements |-> achievements]

\* A stats request that has not arrived.
\* afterFinished is history: the evaluation this request starts is a repeat of
\* one that had fully finished, with the same signals.  firstEval is history:
\* no evaluation for the user had been started when this request listed.
\* heldAtStart is history: the achievements the user held when the request
\* arrived.  evalFailed is history: a statement of the evaluation this request
\* started has failed.
IdleStat ==
  [pc |-> "idle", userId |-> 0, user |-> NoResp, completedCount |-> 0, resp |-> NoResp,
   afterFinished |-> FALSE, firstEval |-> FALSE, heldAtStart |-> {}, evalFailed |-> FALSE]

\* -------------------------------------------------------------------- auth
\* The n-th username and the n-th email address that a request may carry.
Username(n) == <<"username", n>>
Email(n)    == <<"email", n>>

\* one identity more than there are users at the start
Identities == 1..(NumUsers + 1)

Passwords == {"Passw0rd", "0therPass"}

\* auth.ts:15  bcrypt.hash(password, 10)
Hash(password) == <<"bcrypt", password>>

\* auth.ts:68  bcrypt.compare(password, user.password)
Compare(password, hashed) == hashed = Hash(password)

\* database.ts:12-22  the identity columns of a row; last_login counts the
\* timestamps written to it, 0 for NULL
AccountRow(username, email, hashed) ==
  [username |-> username, email |-> email, password |-> hashed, last_login |-> 0]

\* the user that registered as the n-th identity with the first password
SeededAccount(n) ==
  AccountRow(Username(n), Email(n), Hash("Passw0rd"))

\* mutant: email is not declared UNIQUE
UniqueConflictsUsername(tbl, username, email) ==
  {i \in DOMAIN tbl : tbl[i].username = username}

\* database.ts:13-14  the rows a new (username, email) collides with:
\* username TEXT UNIQUE, email TEXT UNIQUE
UniqueConflicts(tbl, username, email) ==
  {i \in DOMAIN tbl : tbl[i].username = username \/ tbl[i].email = email}

\* auth.ts:59-61  SELECT * FROM users WHERE username = ? OR email = ?
\* (db.get: the first matching row, or none)
SelectUser(tbl, login) ==
  LET found == {i \in DOMAIN tbl : tbl[i].username = login \/ tbl[i].email = login}
  IN  IF found = {} THEN 0 ELSE CHOOSE i \in found : \A j \in found : i <= j

\* index.ts:63
UserNotFound == [status |-> 404, message |-> "User not found"]

\* auth.ts:24
AlreadyExists == [status |-> 400, message |-> "Username or email already exists"]

\* auth.ts:64 and 70
InvalidCredentials == [status |-> 401, message |-> "Invalid credentials"]

\* auth.ts:36-47
UserCreated(id, username, email) ==
  [status |-> 201, message |-> "User created successfully", id |-> id,
   username |-> username, email |-> email,
   level |-> 1, experience |-> 0, streak_days |-> 0]

\* auth.ts:84-95
LoginSuccessful(id, account, user) ==
  [status |-> 200, message |-> "Login successful", id |-> id,
   username |-> account.username, email |-> account.email,
   level |-> user.level, experience |-> user.experience, streak_days |-> user.streak_days]

\* An auth request that has not arrived.  existed is history: the identity
\* the request names was in the table when its statement ran.
IdleAuth ==
  [pc |-> "idle", kind |-> "none", username |-> 0, email |-> 0, password |-> "",
   userId |-> 0, row |-> NoResp, resp |-> NoResp, existed |-> FALSE]

\* the users registered at the start and no auth request
AuthInit ==
  /\ accounts = [u \in Users |-> SeededAccount(u)]
  /\ areq = [a \in AuthReqs |-> IdleAuth]
  /\ pendingLogin = {}

\* -------------------------------------------------------------------- Init
Init ==
  /\ blockScoped \in BOOLEAN
  /\ \E e \in InitExperiences : initExp = [u \in Users |-> e]
  /\ users = [u \in Users |->
                [level |-> Level(initExp[u]), experience |-> initExp[u], streak_days |-> 0]]
  /\ todos = [i \in TodoIds |-> NoTodo]
  /\ lastID = 0
  /\ req = [r \in Reqs |-> IdleReq]
  /\ pendingLevel = {}
  /\ lastDelete = [kind |-> "none", resp |-> NoResp]
  /\ lastCreate = NoResp
  /\ unlocks = [u \in Users |-> [a \in AchIds |-> 0]]
  /\ sreq = [x \in StatReqs |-> IdleStat]
  /\ pendingQuery = {}
  /\ pendingInsert = {}
  /\ AuthInit

\* ------------------------------------------------------------------ create
\* router.post('/')  todos.ts:22-53
CreateTodo(u, d) ==
  /\ lastID < MaxTodos
  /\ lastID' = lastID + 1
  /\ todos' = [todos EXCEPT ![lastID + 1] =
                 [user_id |-> u, difficulty |-> d, experience_points |-> expPoints(d),
                  completed |-> FALSE, completed_at |-> 0]]
  /\ lastCreate' = Created(lastID + 1, d, expPoints(d))
  /\ UNCHANGED <<authVars, blockScoped, users, req, pendingLevel, lastDelete, initExp, statsVars>>

\* ---------------------------------------------------------------- complete
\* router.patch('/:id/complete')  todos.ts:56-70: db.get and its callback
CompleteLookup(r, u, id) ==
  /\ req[r].pc = "idle"
  /\ \A q \in DOMAIN req : q < r => req[q].pc # "idle"
  /\ LET todo    == SelectTodo(todos, id, u)
         outcome == LookupOutcome(todo)
         others  == {q \in DOMAIN req \ {r} : req[q].userId = u /\ UnderWay(q)}
         base    == [req[r] EXCEPT !.userId = u, !.todoId = id,
                                   !.kind = TargetKind(todos, id, u),
                                   !.startExp = users[u].experience,
                                   !.startLevel = users[u].level]
     IN  req' = [q \in DOMAIN req |->
                   IF q = r
                   THEN CASE outcome = "notfound" -> [base EXCEPT !.pc = "done", !.resp = NotFound]
                          [] outcome = "conflict" -> [base EXCEPT !.pc = "done", !.resp = Conflict]
                          [] OTHER -> [base EXCEPT !.pc = "marking", !.todo = todo,
                                                   !.overlapped = (others # {})]
                   ELSE IF outcome = "proceed" /\ q \in others
                   THEN [req[q] EXCEPT !.overlapped = TRUE]
                   ELSE req[q]]
  /\ UNCHANGED <<authVars, blockScoped, users, todos, lastID, pendingLevel, lastDelete, initExp, lastCreate, statsVars>>

\* todos.ts:73-79: UPDATE todos ... and its callback, which issues the experience update
CompleteMark(r) ==
  /\ req[r].pc = "marking"
  /\ todos' = MarkCompleted(todos, req[r].todoId)
  /\ req' = [req EXCEPT ![r].pc = "awarding",
                        ![r].changes = MarkChanges(todos, req[r].todoId)]
  /\ UNCHANGED <<authVars, blockScoped, users, lastID, pendingLevel, lastDelete, initExp, lastCreate, statsVars>>

\* todos.ts:82-88: UPDATE users SET experience = experience + ? and its callback
CompleteAward(r) ==
  /\ req[r].pc = "awarding"
  /\ LET u     == req[r].userId
         after == AddExperience(users[u].experience, req[r].todo.experience_points)
     IN  /\ users' = [users EXCEPT ![u].experience = after]
         /\ req' = [req EXCEPT ![r].pc = "reading", ![r].awarded = TRUE,
                               ![r].expBefore = users[u].experience,
                               ![r].expAfter = after]
  /\ UNCHANGED <<authVars, blockScoped, todos, lastID, pendingLevel, lastDelete, initExp, lastCreate, statsVars>>

\* todos.ts:91-111: SELECT * FROM users and its callback
CompleteRead(r) ==
  /\ req[r].pc = "reading"
  /\ LET u        == req[r].userId
         user     == users[u]
         newLevel == Level(user.experience)
     IN  /\ pendingLevel' =
              IF ExceedsStored(newLevel, user.level)
              THEN pendingLevel \cup {[req |-> r, userId |-> u, level |-> newLevel]}
              ELSE pendingLevel
         /\ req' = [req EXCEPT ![r] =
              IF blockScoped
              THEN \* line 109 reads newLevel outside its block: ReferenceError, no response
                   [req[r] EXCEPT !.pc = "threw"]
              ELSE [req[r] EXCEPT !.pc = "done",
                      !.resp = Completed(req[r].todo.experience_points, user.experience,
                                         ExceedsStored(newLevel, user.level))]]
  /\ UNCHANGED <<authVars, blockScoped, users, todos, lastID, lastDelete, initExp, lastCreate, statsVars>>

\* todos.ts:98-101: the store executes a pending UPDATE users SET level = ? WHERE id = ?
ApplyLevel(w) ==
  /\ w \in pendingLevel
  /\ users' = [users EXCEPT ![w.userId].level = w.level]
  /\ pendingLevel' = pendingLevel \ {w}
  /\ UNCHANGED <<authVars, blockScoped, todos, lastID, req, lastDelete, initExp, lastCreate, statsVars>>

\* ------------------------------------------------------------------ delete
\* router.delete('/:id')  todos.ts:122-136
Delete(u, id) ==
  LET matched == DeleteWhere(todos, id, u)
  IN  /\ todos' = [i \in DOMAIN todos |-> IF i \in matched THEN NoTodo ELSE todos[i]]
      /\ lastDelete' = [kind |-> TargetKind(todos, id, u),
                        resp |-> IF Cardinality(matched) = 0 THEN NotFound ELSE DeletedOk]
      /\ UNCHANGED <<authVars, blockScoped, users, lastID, req, pendingLevel, initExp, lastCreate, statsVars>>

\* ------------------------------------------------------------------- stats
\* mutant: the callback does not test `!user` and goes on with an empty row
StatsUserUnchecked(x, u) ==
  /\ sreq[x].pc = "idle"
  /\ \A y \in StatReqs : y < x => sreq[y].pc # "idle"
  /\ sreq' = [sreq EXCEPT ![x] =
       IF u \notin DOMAIN users
       THEN [@ EXCEPT !.pc = "count", !.userId = u,
                      !.user = [level |-> 0, experience |-> 0, streak_days |-> 0]]
       ELSE [@ EXCEPT !.pc = "count", !.userId = u, !.user = users[u],
                      !.heldAtStart = {a \in AchIds : unlocks[u][a] > 0}]]
  /\ UNCHANGED <<authVars, blockScoped, users, todos, lastID, req, pendingLevel, lastDelete, initExp,
                 lastCreate, unlocks, pendingQuery, pendingInsert>>

\* router.get('/')  index.ts:56-64: db.get user and its callback
StatsUser(x, u) ==
  /\ sreq[x].pc = "idle"
  /\ \A y \in StatReqs : y < x => sreq[y].pc # "idle"
  /\ sreq' = [sreq EXCEPT ![x] =
       IF u \notin DOMAIN users
       THEN \* `err || !user` (index.ts:62-64)
            [@ EXCEPT !.pc = "done", !.userId = u, !.resp = UserNotFound]
       ELSE [@ EXCEPT !.pc = "count", !.userId = u, !.user = users[u],
                      !.heldAtStart = {a \in AchIds : unlocks[u][a] > 0}]]
  /\ UNCHANGED <<authVars, blockScoped, users, todos, lastID, req, pendingLevel, lastDelete, initExp,
                 lastCreate, unlocks, pendingQuery, pendingInsert>>

\* index.ts:66-71: the count query and its callback
StatsCount(x) ==
  /\ sreq[x].pc = "count"
  /\ sreq' = [sreq EXCEPT ![x] =
       [@ EXCEPT !.pc = "list", !.completedCount = CompletedCount(todos, sreq[x].userId)]]
  /\ UNCHANGED <<authVars, blockScoped, users, todos, lastID, req, pendingLevel, lastDelete, initExp,
                 lastCreate, unlocks, pendingQuery, pendingInsert>>

\* mutant: the level query is given the completed count
CheckAchievementsCountForLevel(x, userId, completedTasks, streak, level) ==
  { [sreq |-> x, userId |-> userId, type |-> "tasks_completed", value |-> completedTasks],
    [sreq |-> x, userId |-> userId, type |-> "streak",          value |-> streak],
    [sreq |-> x, userId |-> userId, type |-> "level",           value |-> completedTasks] }

\* mutant: only the tasks_completed query is issued
CheckAchievementsTasksOnly(x, userId, completedTasks, streak, level) ==
  { [sreq |-> x, userId |-> userId, type |-> "tasks_completed", value |-> completedTasks] }

\* index.ts:111-162  checkAchievements: the three db.all it issues
CheckAchievements(x, userId, completedTasks, streak, level) ==
  { [sreq |-> x, userId |-> userId, type |-> "tasks_completed", value |-> completedTasks],
    [sreq |-> x, userId |-> userId, type |-> "streak",          value |-> streak],
    [sreq |-> x, userId |-> userId, type |-> "level",           value |-> level] }

\* nothing of an evaluation for userId is left to run
EvaluationFinished(userId) ==
  /\ \A q \in pendingQuery : q.userId # userId
  /\ \A i \in pendingInsert : i.userId # userId

\* history: an earlier evaluation for x's user, with x's signals, has fully finished
RepeatsFinished(x) ==
  /\ EvaluationFinished(sreq[x].userId)
  /\ \E y \in StatReqs \ {x} :
       /\ sreq[y].pc = "done"
       /\ sreq[y].userId = sreq[x].userId
       /\ sreq[y].resp.totalTodos = sreq[x].completedCount
       /\ sreq[y].resp.streak_days = sreq[x].user.streak_days
       /\ sreq[y].resp.level = sreq[x].user.level

\* history: no other request has started an evaluation for x's user
FirstToEvaluate(x) ==
  \A y \in StatReqs \ {x} : sreq[y].pc = "done" => sreq[y].userId # sreq[x].userId

\* index.ts:73-101: the achievements query and its callback, which starts the
\* evaluation and then sends the response with the rows it was given
StatsList(x) ==
  /\ sreq[x].pc = "list"
  /\ LET u    == sreq[x].userId
         user == sreq[x].user
     IN  /\ pendingQuery' = pendingQuery \cup
              CheckAchievements(x, u, sreq[x].completedCount, user.streak_days, user.level)
         /\ sreq' = [sreq EXCEPT ![x] =
              [@ EXCEPT !.pc = "done", !.afterFinished = RepeatsFinished(x),
                        !.firstEval = FirstToEvaluate(x),
                        !.resp = StatsBody(user, sreq[x].completedCount,
                                           ListAchievements(unlocks, u))]]
  /\ UNCHANGED <<authVars, blockScoped, users, todos, lastID, req, pendingLevel, lastDelete, initExp,
                 lastCreate, unlocks, pendingInsert>>

\* index.ts:117-126 (and 134-143, 151-160): a catalog query runs and its
\* callback issues one INSERT per row
EvalQuery(q) ==
  /\ q \in pendingQuery
  /\ pendingQuery' = pendingQuery \ {q}
  /\ pendingInsert' = pendingInsert \cup
       {[sreq |-> q.sreq, userId |-> q.userId, ach |-> a] :
          a \in DueAchievements(q.type, q.value, q.userId, unlocks)}
  /\ UNCHANGED <<authVars, blockScoped, users, todos, lastID, req, pendingLevel, lastDelete, initExp,
                 lastCreate, unlocks, sreq>>

\* index.ts:120-123: the store executes a pending
\* INSERT INTO user_achievements (user_id, achievement_id) VALUES (?, ?)
ApplyInsert(i) ==
  /\ i \in pendingInsert
  /\ pendingInsert' = pendingInsert \ {i}
  /\ unlocks' = [unlocks EXCEPT ![i.userId][i.ach] = @ + 1]
  /\ UNCHANGED <<authVars, blockScoped, users, todos, lastID, req, pendingLevel, lastDelete, initExp,
                 lastCreate, sreq, pendingQuery>>

StatsNext ==
  \/ \E x \in StatReqs, u \in Users : StatsUser(x, u)
  \/ \E x \in StatReqs : StatsCount(x)
  \/ \E x \in StatReqs : StatsList(x)
  \/ \E q \in pendingQuery : EvalQuery(q)
  \/ \E i \in pendingInsert : ApplyInsert(i)

\* ---------------------------------------------------------------- register
\* router.post('/register')  auth.ts:10-15: the request arrives and the
\* password is hashed
RegisterHash(a, n, m, password) ==
  /\ areq[a].pc = "idle"
  /\ \A b \in AuthReqs : b < a => areq[b].pc # "idle"
  /\ areq' = [areq EXCEPT ![a] =
       [@ EXCEPT !.pc = "inserting", !.kind = "register", !.username = Username(n),
                 !.email = Email(m), !.password = Hash(password)]]
  /\ UNCHANGED <<blockScoped, users, todos, lastID, req, pendingLevel, lastDelete, initExp,
                 lastCreate, statsVars, accounts, pendingLogin>>

\* auth.ts:18-48: INSERT INTO users and its callback.  The new row gets the
\* column defaults of database.ts:17-19.
RegisterInsert(a) ==
  /\ areq[a].pc = "inserting"
  /\ LET conflicts == UniqueConflicts(accounts, areq[a].username, areq[a].email)
         id        == Len(accounts) + 1
     IN  IF conflicts # {}
         THEN /\ areq' = [areq EXCEPT ![a].pc = "done", ![a].resp = AlreadyExists,
                                      ![a].existed = TRUE]
              /\ UNCHANGED <<accounts, users>>
         ELSE /\ accounts' = Append(accounts,
                                    AccountRow(areq[a].username, areq[a].email, areq[a].password))
              /\ users' = Append(users, [level |-> 1, experience |-> 0, streak_days |-> 0])
              /\ areq' = [areq EXCEPT ![a].pc = "done", ![a].userId = id,
                                      ![a].resp = UserCreated(id, areq[a].username, areq[a].email)]
  /\ UNCHANGED <<blockScoped, todos, lastID, req, pendingLevel, lastDelete, initExp,
                 lastCreate, statsVars, pendingLogin>>

\* ------------------------------------------------------------------- login
\* router.post('/login')  auth.ts:56-65: db.get and the start of its callback
LoginLookup(a, login, password) ==
  /\ areq[a].pc = "idle"
  /\ \A b \in AuthReqs : b < a => areq[b].pc # "idle"
  /\ LET id   == SelectUser(accounts, login)
         base == [areq[a] EXCEPT !.kind = "login", !.username = login, !.password = password]
     IN  areq' = [areq EXCEPT ![a] =
           IF id = 0
           THEN [base EXCEPT !.pc = "done", !.resp = InvalidCredentials]
           ELSE [base EXCEPT !.pc = "comparing", !.userId = id, !.existed = TRUE,
                             !.row = [account |-> accounts[id], user |-> users[id]]]]
  /\ UNCHANGED <<blockScoped, users, todos, lastID, req, pendingLevel, lastDelete, initExp,
                 lastCreate, statsVars, accounts, pendingLogin>>

\* auth.ts:68-96: after bcrypt.compare: 401, or the last_login UPDATE is
\* issued and the row read by the lookup is sent
LoginCompare(a) ==
  /\ areq[a].pc = "comparing"
  /\ LET row == areq[a].row
     IN  IF Compare(areq[a].password, row.account.password)
         THEN /\ pendingLogin' = pendingLogin \cup {[areq |-> a, userId |-> areq[a].userId]}
              /\ areq' = [areq EXCEPT ![a].pc = "done", ![a].row = NoResp,
                            ![a].resp = LoginSuccessful(areq[a].userId, row.account, row.user)]
         ELSE /\ areq' = [areq EXCEPT ![a].pc = "done", ![a].row = NoResp,
                                      ![a].resp = InvalidCredentials]
              /\ UNCHANGED pendingLogin
  /\ UNCHANGED <<blockScoped, users, todos, lastID, req, pendingLevel, lastDelete, initExp,
                 lastCreate, statsVars, accounts>>

\* auth.ts:74-77: the store executes a pending
\* UPDATE users SET last_login = CURRENT_TIMESTAMP WHERE id = ?
ApplyLastLogin(w) ==
  /\ w \in pendingLogin
  /\ pendingLogin' = pendingLogin \ {w}
  /\ accounts' = [accounts EXCEPT ![w.userId].last_login = @ + 1]
  /\ UNCHANGED <<blockScoped, users, todos, lastID, req, pendingLevel, lastDelete, initExp,
                 lastCreate, statsVars, areq>>

\* -------------------------------------------------------------------- Next
Next ==
  \/ \E u \in Users, d \in Difficulties : CreateTodo(u, d)
  \/ \E r \in Reqs, u \in Users, id \in TodoIds : CompleteLookup(r, u, id)
  \/ \E r \in Reqs : CompleteMark(r)
  \/ \E r \in Reqs : CompleteAward(r)
  \/ \E r \in Reqs : CompleteRead(r)
  \/ \E w \in pendingLevel : ApplyLevel(w)
  \/ \E u \in Users, id \in TodoIds : Delete(u, id)

Spec == Init /\ [][Next]_vars

\* ------------------------------------------------------------- create alone
\* The difficulty values a create request may carry (todos.ts:23): the four
\* keys, a word that is no key, none at all (undefined), and a word that is a
\* property every object inherits.
RequestDifficulties ==
  {"easy", "medium", "hard", "epic", "legendary", "undefined", "toString"}

NextCreate == \E u \in Users, d \in RequestDifficulties : CreateTodo(u, d)

SpecCreate == Init /\ [][NextCreate]_vars

FirstUser == CHOOSE u \in Users : \A v \in Users : u <= v

\* ------------------------------------------------- completions one by one
\* A new user owns four uncompleted tasks, created with these difficulties in
\* this order; complete requests arrive one after another, each after the
\* one before it has run to its end.
ScenarioDifficulties == <<"epic", "hard", "medium", "hard">>

ScenarioReqs == DOMAIN ScenarioDifficulties

\* a row as router.post('/') inserts it (todos.ts:33-36)
ScenarioTodo(u, d) ==
  [user_id |-> u, difficulty |-> d, experience_points |-> expPoints(d),
   completed |-> FALSE, completed_at |-> 0]

InitScenario ==
  /\ blockScoped \in BOOLEAN
  /\ initExp = [u \in Users |-> 0]
  /\ users = [u \in Users |->
                [level |-> Level(initExp[u]), experience |-> initExp[u], streak_days |-> 0]]
  /\ todos = [i \in ScenarioReqs |-> ScenarioTodo(FirstUser, ScenarioDifficulties[i])]
  /\ lastID = Len(ScenarioDifficulties)
  /\ req = [r \in ScenarioReqs |-> IdleReq]
  /\ pendingLevel = {}
  /\ lastDelete = [kind |-> "none", resp |-> NoResp]
  /\ lastCreate = NoResp
  /\ unlocks = [u \in Users |-> [a \in AchIds |-> 0]]
  /\ sreq = [x \in StatReqs |-> IdleStat]
  /\ pendingQuery = {}
  /\ pendingInsert = {}
  /\ AuthInit

NextScenario ==
  \/ \E r \in ScenarioReqs, u \in Users, id \in ScenarioReqs :
       /\ \A q \in ScenarioReqs : ~InFlight(q)
       /\ CompleteLookup(r, u, id)
  \/ \E r \in ScenarioReqs : CompleteMark(r)
  \/ \E r \in ScenarioReqs : CompleteAward(r)
  \/ \E r \in ScenarioReqs : CompleteRead(r)
  \/ \E w \in pendingLevel : ApplyLevel(w)

SpecScenario == InitScenario /\ [][NextScenario]_vars

\* The todos router and the stats router serving the same store: one
\* completion and one stats read at a time next to creates, deletes and the
\* evaluator's callbacks.
FirstSlot == CHOOSE r \in Reqs : \A q \in Reqs : r <= q

FirstStat == CHOOSE x \in StatReqs : \A y \in StatReqs : x <= y

NextAll ==
  \/ \E u \in Users, d \in Difficulties : CreateTodo(u, d)
  \/ \E u \in Users, id \in TodoIds : CompleteLookup(FirstSlot, u, id)
  \/ CompleteMark(FirstSlot)
  \/ CompleteAward(FirstSlot)
  \/ CompleteRead(FirstSlot)
  \/ \E w \in pendingLevel : ApplyLevel(w)
  \/ \E u \in Users, id \in TodoIds : Delete(u, id)
  \/ \E u \in Users : StatsUser(FirstStat, u)
  \/ StatsCount(FirstStat)
  \/ StatsList(FirstStat)
  \/ \E q \in pendingQuery : EvalQuery(q)
  \/ \E i \in pendingInsert : ApplyInsert(i)

SpecAll == Init /\ [][NextAll]_vars

\* ------------------------------------------------------ the evaluator alone
\* Stats reads over a store whose signals are given: the first user owns
\* SeededCounts completed tasks, every user has the drawn level and streak.
SeededCounts == {0, 1, 12}
SeededStreaks == {0, 7}
SeededLevels == {1, 5}

\* a completed row as todos.ts:30-33 and 73-75 leave it
SeededTodo(u) ==
  [user_id |-> u, difficulty |-> "easy", experience_points |-> expPoints("easy"),
   completed |-> TRUE, completed_at |-> 1]

InitEval ==
  /\ blockScoped \in BOOLEAN
  /\ \E l \in SeededLevels : initExp = [u \in Users |-> (l - 1) * LevelBand]
  /\ \E k \in SeededStreaks :
       users = [u \in Users |->
                  [level |-> Level(initExp[u]), experience |-> initExp[u], streak_days |-> k]]
  /\ \E n \in SeededCounts :
       /\ todos = [i \in 1..n |-> SeededTodo(FirstUser)]
       /\ lastID = n
  /\ req = [r \in Reqs |-> IdleReq]
  /\ pendingLevel = {}
  /\ lastDelete = [kind |-> "none", resp |-> NoResp]
  /\ lastCreate = NoResp
  /\ unlocks = [u \in Users |-> [a \in AchIds |-> 0]]
  /\ sreq = [x \in StatReqs |-> IdleStat]
  /\ pendingQuery = {}
  /\ pendingInsert = {}
  /\ AuthInit

SpecEval == InitEval /\ [][StatsNext]_vars

\* The store runs every statement handed to it and calls back: a pending
\* catalog query and a pending INSERT are not postponed for ever.
SpecEvalFair ==
  /\ SpecEval
  /\ WF_vars(\E q \in pendingQuery : EvalQuery(q))
  /\ WF_vars(\E i \in pendingInsert : ApplyInsert(i))

\* ------------------------------------------------- stats over any experience
\* One stats read at a time over a store whose users hold any experience up
\* to MaxExperience, with the level that belongs to it.
InitNumeric ==
  /\ blockScoped \in BOOLEAN
  /\ \E e \in 0..MaxExperience : initExp = [u \in Users |-> e]
  /\ users = [u \in Users |->
                [level |-> Level(initExp[u]), experience |-> initExp[u], streak_days |-> 0]]
  /\ todos = [i \in TodoIds |-> NoTodo]
  /\ lastID = 0
  /\ req = [r \in Reqs |-> IdleReq]
  /\ pendingLevel = {}
  /\ lastDelete = [kind |-> "none", resp |-> NoResp]
  /\ lastCreate = NoResp
  /\ unlocks = [u \in Users |-> [a \in AchIds |-> 0]]
  /\ sreq = [x \in StatReqs |-> IdleStat]
  /\ pendingQuery = {}
  /\ pendingInsert = {}
  /\ AuthInit

NextNumeric ==
  \/ \E u \in Users : StatsUser(FirstStat, u)
  \/ StatsCount(FirstStat)
  \/ StatsList(FirstStat)
  \/ \E q \in pendingQuery : EvalQuery(q)
  \/ \E i \in pendingInsert : ApplyInsert(i)

SpecNumeric == InitNumeric /\ [][NextNumeric]_vars

\* ---------------------------------------------------------------- auth alone
AuthNext ==
  \/ \E a \in AuthReqs, n \in Identities, m \in Identities, p \in Passwords :
       RegisterHash(a, n, m, p)
  \/ \E a \in AuthReqs : RegisterInsert(a)
  \/ \E a \in AuthReqs, n \in Identities, p \in Passwords :
       LoginLookup(a, Username(n), p) \/ LoginLookup(a, Email(n), p)
  \/ \E a \in AuthReqs : LoginCompare(a)
  \/ \E w \in pendingLogin : ApplyLastLogin(w)

SpecAuth == Init /\ [][AuthNext]_vars

\* ------------------------------------------------------------ every route
\* All routes over the same store, one request of a kind at a time: creates
\* of easy tasks, a completion, deletes, a stats read with the evaluator's
\* callbacks, and an auth request that is a login of the first user with
\* either password or a registration of the identity that is still free.
FirstAuth == CHOOSE a \in AuthReqs : \A b \in AuthReqs : a <= b

FreeIdentity == CHOOSE n \in Identities : n \notin Users

FirstPassword == CHOOSE p \in Passwords : p = "Passw0rd"

NextRoutes ==
  \/ \E u \in Users : CreateTodo(u, "easy")
  \/ \E u \in Users, id \in TodoIds : CompleteLookup(FirstSlot, u, id)
  \/ CompleteMark(FirstSlot)
  \/ CompleteAward(FirstSlot)
  \/ CompleteRead(FirstSlot)
  \/ \E w \in pendingLevel : ApplyLevel(w)
  \/ \E u \in Users, id \in TodoIds : Delete(u, id)
  \/ \E u \in Users : StatsUser(FirstStat, u)
  \/ StatsCount(FirstStat)
  \/ StatsList(FirstStat)
  \/ \E q \in pendingQuery : EvalQuery(q)
  \/ \E i \in pendingInsert : ApplyInsert(i)
  \/ RegisterHash(FirstAuth, FreeIdentity, FreeIdentity, FirstPassword)
  \/ RegisterInsert(FirstAuth)
  \/ \E p \in Passwords : LoginLookup(FirstAuth, Username(FirstUser), p)
  \/ LoginCompare(FirstAuth)
  \/ \E w \in pendingLogin : ApplyLastLogin(w)

\* every user starts just below the first level boundary
InitRoutes == Init /\ \A u \in Users : initExp[u] = LevelBand - expPoints("easy")

SpecRoutes == InitRoutes /\ [][NextRoutes]_vars

\* ------------------------------------------------- an evaluator that fails
\* index.ts:117-119: a catalog query calls back with err; `!err && ...` skips
\* the inserts
EvalQueryFail(q) ==
  /\ q \in pendingQuery
  /\ pendingQuery' = pendingQuery \ {q}
  /\ sreq' = [sreq EXCEPT ![q.sreq].evalFailed = TRUE]
  /\ UNCHANGED <<authVars, blockScoped, users, todos, lastID, req, pendingLevel, lastDelete,
                 initExp, lastCreate, unlocks, pendingInsert>>

\* index.ts:120-123: an unlock INSERT fails; db.run was given no callback
ApplyInsertFail(i) ==
  /\ i \in pendingInsert
  /\ pendingInsert' = pendingInsert \ {i}
  /\ sreq' = [sreq EXCEPT ![i.sreq].evalFailed = TRUE]
  /\ UNCHANGED <<authVars, blockScoped, users, todos, lastID, req, pendingLevel, lastDelete,
                 initExp, lastCreate, unlocks, pendingQuery>>

EvalFaultNext ==
  \/ \E q \in pendingQuery : EvalQueryFail(q)
  \/ \E i \in pendingInsert : ApplyInsertFail(i)

NextEvalFault == StatsNext \/ EvalFaultNext

SpecEvalFault == InitEval /\ [][NextEvalFault]_vars

\* ------------------------------------------- completions across two levels
\* One user, 5 points short of level 2, owns three uncompleted tasks created
\* with these difficulties; the three complete requests may overlap in any way.
LevelDifficulties == <<"easy", "epic", "epic">>

LevelReqs == DOMAIN LevelDifficulties

InitLevels ==
  /\ blockScoped \in BOOLEAN
  /\ initExp = [u \in Users |-> LevelBand - expPoints("easy")]
  /\ users = [u \in Users |->
                [level |-> Level(initExp[u]), experience |-> initExp[u], streak_days |-> 0]]
  /\ todos = [i \in LevelReqs |-> ScenarioTodo(FirstUser, LevelDifficulties[i])]
  /\ lastID = Len(LevelDifficulties)
  /\ req = [r \in LevelReqs |-> IdleReq]
  /\ pendingLevel = {}
  /\ lastDelete = [kind |-> "none", resp |-> NoResp]
  /\ lastCreate = NoResp
  /\ unlocks = [u \in Users |-> [a \in AchIds |-> 0]]
  /\ sreq = [x \in StatReqs |-> IdleStat]
  /\ pendingQuery = {}
  /\ pendingInsert = {}
  /\ AuthInit

NextLevels ==
  \/ \E r \in LevelReqs, id \in LevelReqs : CompleteLookup(r, FirstUser, id)
  \/ \E r \in LevelReqs : CompleteMark(r)
  \/ \E r \in LevelReqs : CompleteAward(r)
  \/ \E r \in LevelReqs : CompleteRead(r)
  \/ \E w \in pendingLevel : ApplyLevel(w)

SpecLevels == InitLevels /\ [][NextLevels]_vars

\* ------------------------------------------------ a read after a completion
\* Creates, one complete request, deletes, and one stats read that arrives
\* only when the complete request has run to its end.
NextAfter ==
  \/ \E u \in Users, d \in Difficulties : CreateTodo(u, d)
  \/ \E u \in Users, id \in TodoIds : CompleteLookup(FirstSlot, u, id)
  \/ CompleteMark(FirstSlot)
  \/ CompleteAward(FirstSlot)
  \/ CompleteRead(FirstSlot)
  \/ \E w \in pendingLevel : ApplyLevel(w)
  \/ \E u \in Users, id \in TodoIds : Delete(u, id)
  \/ \E u \in Users : req[FirstSlot].pc = "done" /\ StatsUser(FirstStat, u)
  \/ StatsCount(FirstStat)
  \/ StatsList(FirstStat)
  \/ \E q \in pendingQuery : EvalQuery(q)
  \/ \E i \in pendingInsert : ApplyInsert(i)

SpecAfter == Init /\ [][NextAfter]_vars

\* ------------------------------------------- a read for a user id without row
\* the id of a token whose user is not in the users table
NoSuchUser == NumUsers + 1

NextStats ==
  \/ NextAll
  \/ StatsUser(FirstStat, NoSuchUser)

SpecStats == Init /\ [][NextStats]_vars

\* ------------------------------------------------------ a store that fails
\* todos.ts:78
ErrorCompleting == [status |-> 500, message |-> "Error completing todo"]

\* todos.ts:60-66: db.get calls back with err; `err || !todo` answers 404
CompleteLookupFail(r, u, id) ==
  /\ req[r].pc = "idle"
  /\ \A q \in Reqs : q < r => req[q].pc # "idle"
  /\ req' = [req EXCEPT ![r] =
       [@ EXCEPT !.pc = "done", !.resp = NotFound, !.userId = u, !.todoId = id,
                 !.kind = TargetKind(todos, id, u),
                 !.startExp = users[u].experience, !.startLevel = users[u].level]]
  /\ UNCHANGED <<authVars, blockScoped, users, todos, lastID, pendingLevel, lastDelete, initExp,
                 lastCreate, statsVars>>

\* mutant: the callback logs the error and goes on, as the next one does
CompleteMarkFailIgnored(r) ==
  /\ req[r].pc = "marking"
  /\ req' = [req EXCEPT ![r].pc = "awarding", ![r].markFailed = TRUE]
  /\ UNCHANGED <<authVars, blockScoped, users, todos, lastID, pendingLevel, lastDelete, initExp,
                 lastCreate, statsVars>>

\* todos.ts:73-79: the mark-completed UPDATE fails; the callback answers 500
CompleteMarkFail(r) ==
  /\ req[r].pc = "marking"
  /\ req' = [req EXCEPT ![r].pc = "done", ![r].resp = ErrorCompleting,
                        ![r].markFailed = TRUE]
  /\ UNCHANGED <<authVars, blockScoped, users, todos, lastID, pendingLevel, lastDelete, initExp,
                 lastCreate, statsVars>>

\* todos.ts:82-91: the experience UPDATE fails; the callback logs the error
\* (line 87) and goes on to read the user
CompleteAwardFail(r) ==
  /\ req[r].pc = "awarding"
  /\ req' = [req EXCEPT ![r].pc = "reading"]
  /\ UNCHANGED <<authVars, blockScoped, users, todos, lastID, pendingLevel, lastDelete, initExp,
                 lastCreate, statsVars>>

\* todos.ts:91-111: the user read fails; `user` is undefined, the level block
\* is skipped, `user && ...` short-circuits before newLevel is read, and the
\* response carries newExperience 0 and no levelUp
CompleteReadFail(r) ==
  /\ req[r].pc = "reading"
  /\ req' = [req EXCEPT ![r].pc = "done",
                        ![r].resp = Completed(req[r].todo.experience_points, 0, "undefined")]
  /\ UNCHANGED <<authVars, blockScoped, users, todos, lastID, pendingLevel, lastDelete, initExp,
                 lastCreate, statsVars>>

FaultNext ==
  \/ \E r \in Reqs, u \in Users, id \in TodoIds : CompleteLookupFail(r, u, id)
  \/ \E r \in Reqs : CompleteMarkFail(r)
  \/ \E r \in Reqs : CompleteAwardFail(r)
  \/ \E r \in Reqs : CompleteReadFail(r)

NextFault == Next \/ FaultNext

SpecFault == Init /\ [][NextFault]_vars


\* ================================================================== claims

Succeeded(r) == req[r].resp.status = 200

\* the experience_points of the tasks of the requests in S, added up
RECURSIVE SumPoints(_)
SumPoints(S) ==
  IF S = {} THEN 0
  ELSE LET r == CHOOSE x \in S : TRUE
       IN  req[r].todo.experience_points + SumPoints(S \ {r})

\* C1: every successful complete on a task that the caller owned and that was
\* not completed at its lookup made the task completed (its UPDATE changed the
\* row), raised the caller's stored experience by exactly the task's
\* experience_points, and reports that value as experienceGained.
C1_CompleteContract ==
  \A r \in Reqs :
    (Succeeded(r) /\ req[r].kind = "own" /\ ~req[r].todo.completed)
      => /\ req[r].changes = 1
         /\ req[r].expAfter = req[r].expBefore + req[r].todo.experience_points
         /\ req[r].resp.experienceGained = req[r].todo.experience_points

\* C2: a task's award is granted at most once: no two requests for the same
\* task id both succeed, and no two of them both add the task's
\* experience_points to the owner's experience.
C2_AwardAtMostOnce ==
  \A r1, r2 \in Reqs :
    (r1 # r2 /\ req[r1].todoId = req[r2].todoId)
      => /\ ~(Succeeded(r1) /\ Succeeded(r2))
         /\ ~(req[r1].awarded /\ req[r2].awarded)

\* C3: no increment is lost: in every state, whatever the interleaving of the
\* database steps, a user's stored experience is the initial experience plus
\* the experience_points of every request of that user whose experience
\* UPDATE has run; for two overlapping requests on two tasks that is the
\* initial experience plus both awards.
C3_NoLostIncrement ==
  \A u \in Users :
    users[u].experience =
      initExp[u] + SumPoints({r \in Reqs : req[r].awarded /\ req[r].userId = u})

\* C3 witness: two requests of one user on two different tasks have both added
\* their award while neither has finished, and the experience holds both.
C3_Witness ==
  \E r1, r2 \in Reqs :
    /\ r1 # r2 /\ req[r1].userId = req[r2].userId /\ req[r1].todoId # req[r2].todoId
    /\ req[r1].pc = "reading" /\ req[r2].pc = "reading"
    /\ req[r1].overlapped /\ req[r2].overlapped
    /\ users[req[r1].userId].experience =
         initExp[req[r1].userId] + req[r1].todo.experience_points
                                 + req[r2].todo.experience_points

\* C4: whenever no complete request is running, every user's stored level is
\* floor(experience / 100) + 1.
C4_LevelMatchesExperience ==
  (\A r \in Reqs : ~InFlight(r))
    => \A u \in Users : users[u].level = (users[u].experience \div 100) + 1

\* C5: read-your-writes: in the step in which a complete sends its success
\* response, the store already holds the awarded experience and, when the
\* response says the level rose, the level floor(newExperience / 100) + 1.
C5_ReadYourWrites ==
  [][\A r \in Reqs :
       (req[r].resp = NoResp /\ req'[r].resp.status = 200)
         => LET u == req'[r].userId
            IN  /\ users'[u].experience = req'[r].resp.newExperience
                /\ req'[r].resp.levelUp
                     => users'[u].level = (req'[r].resp.newExperience \div 100) + 1]_vars

\* C6: for a successful complete that overlapped no other completion of the
\* same user and started with stored level = floor(oldExperience / 100) + 1,
\* levelUp is true exactly when floor(newExperience / 100) + 1 exceeds
\* floor(oldExperience / 100) + 1, newExperience being oldExperience plus
\* experienceGained.
C6_LevelUpIffCrossing ==
  \A r \in Reqs :
    (/\ Succeeded(r)
     /\ ~req[r].overlapped
     /\ req[r].startLevel = (req[r].startExp \div 100) + 1)
      => LET old == req[r].startExp
             new == old + req[r].resp.experienceGained
         IN  req[r].resp.levelUp <=> ((new \div 100) + 1 > (old \div 100) + 1)

\* C6 witness: two completions that overlapped nothing, one answered
\* levelUp = true and one levelUp = false.
C6_Witness ==
  \E r1, r2 \in Reqs :
    /\ Succeeded(r1) /\ ~req[r1].overlapped /\ req[r1].resp.levelUp
    /\ req[r1].startLevel = (req[r1].startExp \div 100) + 1
    /\ Succeeded(r2) /\ ~req[r2].overlapped /\ ~req[r2].resp.levelUp
    /\ req[r2].startLevel = (req[r2].startExp \div 100) + 1

\* C7: the newExperience of every success response is the user's stored
\* experience right before this request's increment plus this request's
\* experienceGained.
C7_NewExperienceIsOwnIncrement ==
  \A r \in Reqs :
    Succeeded(r)
      => req[r].resp.newExperience = req[r].expBefore + req[r].resp.experienceGained

\* C8: a complete request whose lookup finds the caller's task already
\* completed answers 400 'Todo already completed' in that step, changes no
\* user row, no task and issues no write, and takes no step afterwards.
C8_SecondCompleteConflict ==
  [][\A r \in Reqs :
       /\ (/\ req[r].pc = "idle" /\ req'[r].pc # "idle"
           /\ todos[req'[r].todoId] # NoTodo
           /\ todos[req'[r].todoId].user_id = req'[r].userId
           /\ todos[req'[r].todoId].completed)
            => /\ req'[r].pc = "done"
               /\ req'[r].resp = [status |-> 400, message |-> "Todo already completed"]
               /\ users' = users /\ todos' = todos /\ pendingLevel' = pendingLevel
       /\ req[r].resp.status = 400 => req'[r] = req[r]]_vars

\* C8 witness: a request completed a task with success and a later request of
\* the same caller for the same task was answered with the conflict.
C8_Witness ==
  \E r1, r2 \in Reqs :
    /\ r1 < r2 /\ req[r1].todoId = req[r2].todoId /\ req[r1].userId = req[r2].userId
    /\ Succeeded(r1)
    /\ req[r2].resp = Conflict
    /\ req[r2].startExp = req[r1].resp.newExperience

\* C9: a complete request whose task id names no row, or a row of another
\* user, answers 404 'Todo not found' in that step, changes no task, no user
\* row and issues no write, and takes no step afterwards.
C9_MissingOrForeignNotFound ==
  [][\A r \in Reqs :
       /\ (/\ req[r].pc = "idle" /\ req'[r].pc # "idle"
           /\ \/ todos[req'[r].todoId] = NoTodo
              \/ todos[req'[r].todoId].user_id # req'[r].userId)
            => /\ req'[r].pc = "done"
               /\ req'[r].resp = [status |-> 404, message |-> "Todo not found"]
               /\ users' = users /\ todos' = todos /\ pendingLevel' = pendingLevel
       /\ req[r].resp.status = 404 => req'[r] = req[r]]_vars

\* C9 witness: one request named another user's uncompleted task, one named
\* an id without a row; both got 404 and the foreign task is still uncompleted.
C9_Witness ==
  \E r1, r2 \in Reqs :
    /\ req[r1].kind = "foreign" /\ req[r1].resp = NotFound
    /\ todos[req[r1].todoId] # NoTodo /\ ~todos[req[r1].todoId].completed
    /\ req[r2].kind = "absent" /\ req[r2].resp = NotFound
    /\ \A u \in Users : users[u].experience = initExp[u]

\* C10: what a caller observes from complete and from delete does not depend
\* on whether the id is absent or belongs to another user: in both worlds the
\* response is the same status and the same message.
C10_ExistenceNotObservable ==
  /\ \A r \in Reqs :
       req[r].kind \in {"absent", "foreign"}
         => req[r].resp = [status |-> 404, message |-> "Todo not found"]
  /\ \A r1, r2 \in Reqs :
       (req[r1].kind = "absent" /\ req[r2].kind = "foreign") => req[r1].resp = req[r2].resp
  /\ lastDelete.kind \in {"absent", "foreign"}
       => lastDelete.resp = [status |-> 404, message |-> "Todo not found"]

\* C10 witness: a complete on an absent id, a complete on a foreign id and a
\* delete on a foreign id have been answered, all three alike.
C10_Witness ==
  \E r1, r2 \in Reqs :
    /\ req[r1].kind = "absent" /\ req[r2].kind = "foreign"
    /\ req[r1].resp = req[r2].resp
    /\ lastDelete.kind = "foreign" /\ lastDelete.resp = req[r1].resp
    /\ todos[req[r2].todoId] # NoTodo

\* C11: the completion effect is never partially visible to a stats read:
\* no stats response shows an experience whose level floor(experience/100)+1
\* is above the level it shows, and none counts a completed task while its
\* experience is still the one from before any award.
C11_NoPartialCompletion ==
  \A x \in StatReqs :
    sreq[x].pc = "done" =>
      /\ sreq[x].resp.level >= Level(sreq[x].resp.experience)
      /\ sreq[x].resp.totalTodos > 0 => sreq[x].resp.experience > initExp[sreq[x].userId]

\* C12: when the experience update of a completion fails, the caller gets no
\* success response: every request answered 200 ran its experience UPDATE
\* successfully.
C12_FailedAwardIsFailure ==
  \A r \in Reqs : Succeeded(r) => req[r].awarded

\* C13: in every reachable state the unlock relation holds at most one row
\* per (user, achievement) pair.
C13_UnlockUnique ==
  \A u \in Users, a \in AchIds : unlocks[u][a] <= 1

\* C14: evaluation is idempotent: an evaluation started after an earlier one
\* for the same user with the same signals has fully finished issues no
\* unlock INSERT.
C14_SecondRunCreatesNothing ==
  \A i \in pendingInsert : ~sreq[i.sreq].afterFinished

\* a repeated evaluation has run its three queries after the first one
\* unlocked something
C14_Witness ==
  \E x \in StatReqs :
    /\ sreq[x].afterFinished
    /\ \A q \in pendingQuery : q.sreq # x
    /\ \E a \in AchIds : unlocks[sreq[x].userId][a] > 0

\* C15: the threshold check is 'less than or equal': one tasks_completed
\* query for a user without unlocks issues the INSERTs of exactly the
\* tasks_completed achievements whose required_value is <= the completed
\* count; with a count of 12 these are 'First Step' and 'Task Master' and
\* not 'Unstoppable'.
C15_ThresholdPass ==
  [][\A q \in pendingQuery :
       ( /\ EvalQuery(q)
         /\ q.type = "tasks_completed"
         /\ \A a \in AchIds : unlocks[q.userId][a] = 0 )
       => LET issued == {i.ach : i \in pendingInsert' \ pendingInsert}
          IN  /\ issued = {a \in AchIds : /\ Achievements[a].type = "tasks_completed"
                                          /\ Achievements[a].required_value <= q.value}
              /\ q.value = 12 =>
                   {Achievements[a].name : a \in issued} = {"First Step", "Task Master"}
    ]_vars

\* a stats read counted 12 completed tasks and its evaluation has finished
\* with the two unlocks
C15_Witness ==
  \E x \in StatReqs :
    /\ sreq[x].pc = "done" /\ sreq[x].completedCount = 12
    /\ EvaluationFinished(sreq[x].userId)
    /\ {a \in AchIds : unlocks[sreq[x].userId][a] = 1} =
         {a \in AchIds : Achievements[a].name \in {"First Step", "Task Master"}}

\* C16 (as stated): for a user with streak_days = 7 and no prior unlocks every
\* stats read, the very first one included, returns a list that contains
\* 'Week Warrior'.
C16_AnyReadListsWeekWarrior ==
  \A x \in StatReqs :
    (sreq[x].pc = "done" /\ sreq[x].resp.streak_days = 7)
      => sreq[x].resp.achievements[WeekWarrior] >= 1

\* C16 (amended): for a user with streak_days = 7 and no prior unlocks, a
\* stats read that lists before any evaluation for the user was started (the
\* very first one) returns a list without 'Week Warrior', and a stats read
\* that lists after an earlier read's evaluation has finished returns a list
\* that contains it.
C16_LaterReadListsWeekWarrior ==
  \A x \in StatReqs :
    (sreq[x].pc = "done" /\ sreq[x].resp.streak_days = 7)
      => /\ sreq[x].firstEval => sreq[x].resp.achievements[WeekWarrior] = 0
         /\ sreq[x].afterFinished => sreq[x].resp.achievements[WeekWarrior] >= 1

\* the first read of a user with streak 7 came back without the achievement
\* and a later one with it
C16_Witness ==
  \E x, y \in StatReqs :
    /\ sreq[x].pc = "done" /\ sreq[y].pc = "done" /\ sreq[x].userId = sreq[y].userId
    /\ sreq[x].resp.streak_days = 7
    /\ sreq[x].firstEval /\ sreq[x].resp.achievements[WeekWarrior] = 0
    /\ sreq[y].afterFinished /\ sreq[y].resp.achievements[WeekWarrior] = 1

\* the signal of achievement a's type as stats request x read it (index.ts:85)
SignalRead(x, a) ==
  CASE Achievements[a].type = "tasks_completed" -> sreq[x].resp.totalTodos
    [] Achievements[a].type = "streak"          -> sreq[x].resp.streak_days
    [] OTHER                                    -> sreq[x].resp.level

\* C17: after a stats read of a user the unlock row of every achievement
\* whose required_value is <= the signal of its type, as that read saw it,
\* eventually exists, given that the evaluator's callbacks are scheduled
\* fairly; and a stats read that arrives when a row exists returns the
\* achievement.
C17_EventualUnlock ==
  /\ \A x \in StatReqs :
       (sreq[x].pc = "done")
         ~> (sreq[x].pc = "done" /\
             \A a \in AchIds : SignalRead(x, a) >= Achievements[a].required_value
                                  => unlocks[sreq[x].userId][a] >= 1)
  /\ [](\A x \in StatReqs :
          sreq[x].pc = "done" =>
            \A a \in sreq[x].heldAtStart : sreq[x].resp.achievements[a] >= 1)

\* a read made an achievement due, the row exists, and a read that arrived
\* afterwards returned it
C17_Witness ==
  \E x, y \in StatReqs, a \in AchIds :
    /\ sreq[x].pc = "done" /\ sreq[y].pc = "done" /\ sreq[x].userId = sreq[y].userId
    /\ SignalRead(x, a) >= Achievements[a].required_value
    /\ a \notin sreq[x].heldAtStart
    /\ unlocks[sreq[x].userId][a] >= 1
    /\ a \in sreq[y].heldAtStart /\ sreq[y].resp.achievements[a] >= 1

\* C18: completion triggers the evaluation too: once a successful first
\* completion of a user has come to rest (no request, query or write
\* outstanding) the user holds 'First Step', even if no stats read was issued.
C18_CompletionUnlocks ==
  \A r \in Reqs :
    ( /\ Succeeded(r)
      /\ \A q \in Reqs : ~UnderWay(q)
      /\ pendingLevel = {}
      /\ \A x \in StatReqs : sreq[x].pc = "idle"
      /\ pendingQuery = {} /\ pendingInsert = {} )
    => \E a \in AchIds : Achievements[a].name = "First Step" /\ unlocks[req[r].userId][a] >= 1

\* C19: a delete of an own task, completed or not, takes the task out of the
\* owner's listing, and the step in which a task row disappears leaves every
\* user's experience and level and every unlock row as they were; a deleted
\* task never shows in a listing again; no step lowers the number of unlock
\* rows of any (user, achievement) pair.
C19_DeleteFrame ==
  [][ /\ \A u \in Users, id \in TodoIds :
           (Delete(u, id) /\ TargetKind(todos, id, u) = "own")
             => id \notin ListTodos(todos', u)
      /\ \A id \in DOMAIN todos :
           (todos[id] # NoTodo /\ todos'[id] = NoTodo)
             => users' = users /\ unlocks' = unlocks
      /\ \A id \in DOMAIN todos :
           (id <= lastID /\ todos[id] = NoTodo)
             => \A u \in Users : id \notin ListTodos(todos', u)
      /\ \A u \in Users, a \in AchIds : unlocks'[u][a] >= unlocks[u][a]
    ]_vars

\* a completed task was deleted and its owner still has the award and the
\* unlock it earned
C19_Witness ==
  \E r \in Reqs, a \in AchIds :
    /\ Succeeded(r) /\ req[r].changes = 1
    /\ todos[req[r].todoId] = NoTodo
    /\ lastDelete.resp = DeletedOk
    /\ users[req[r].userId].experience > initExp[req[r].userId]
    /\ unlocks[req[r].userId][a] >= 1

\* C20: a create with difficulty easy, medium, hard or epic stores and returns
\* experience_points 5, 10, 20 or 50; a create with any other difficulty, or
\* none, stores and returns 10.
C20_CreatePoints ==
  lastCreate.status = 201 =>
    LET award == CASE lastCreate.difficulty = "easy"   -> 5
                   [] lastCreate.difficulty = "medium" -> 10
                   [] lastCreate.difficulty = "hard"   -> 20
                   [] lastCreate.difficulty = "epic"   -> 50
                   [] OTHER                            -> 10
    IN  /\ lastCreate.experience_points = award
        /\ todos[lastCreate.id].experience_points = award

\* the response the scenario names for its k-th completion
ScenarioResponse(k) ==
  CASE k = 1 -> Completed(50, 50, FALSE)
    [] k = 2 -> Completed(20, 70, FALSE)
    [] k = 3 -> Completed(10, 80, FALSE)
    [] OTHER -> Completed(20, 100, TRUE)

\* the first k requests were the owner's completions of tasks 1..k in order
\* and the k-th has run to its end
ScenarioRun(k) ==
  /\ \A r \in 1..k : /\ req[r].pc # "idle"
                     /\ req[r].userId = FirstUser
                     /\ req[r].todoId = r
  /\ ~InFlight(k)

\* C21: from a new user, completions issued one after another of an epic, a
\* hard, a medium and a hard task answer (50, 50, false), (20, 70, false),
\* (10, 80, false) and (20, 100, true), and once the last one has come to
\* rest the stored level is 2.
C21_Scenario ==
  \A k \in ScenarioReqs :
    ScenarioRun(k) =>
      /\ req[k].resp = ScenarioResponse(k)
      /\ (k = Len(ScenarioDifficulties) /\ pendingLevel = {})
           => users[FirstUser] = [level |-> 2, experience |-> 100, streak_days |-> 0]

\* C22: for every stored experience e >= 0 the stats response reports
\* experienceToNextLevel = 100 - (e mod 100), a value in 1..100 that is 100
\* and never 0 when e is a multiple of 100, e = 0 included.
C22_ExperienceToNextLevel ==
  \A x \in StatReqs :
    sreq[x].pc = "done" =>
      LET e    == users[sreq[x].userId].experience
          left == sreq[x].resp.experienceToNextLevel
      IN  /\ sreq[x].resp.experience = e
          /\ left = 100 - (e % 100)
          /\ left \in 1..100
          /\ (e % 100 = 0) => left = 100

\* a read of a user at a positive multiple of 100 reported 100
C22_Witness ==
  \E x \in StatReqs :
    /\ sreq[x].pc = "done"
    /\ sreq[x].resp.experience = 200
    /\ sreq[x].resp.experienceToNextLevel = 100

\* C23: completed_at of a task is written exactly once, at the step where
\* completed goes from false to true: no task has had it written a second
\* time, and it is written if and only if the task is completed.
C23_CompletedAtOnce ==
  \A id \in DOMAIN todos :
    todos[id] # NoTodo =>
      /\ todos[id].completed_at <= 1
      /\ todos[id].completed <=> todos[id].completed_at = 1

\* C24: no step changes the experience_points of a task that stays in the
\* store, and no step sets the completed flag of a task back to false.
C24_TaskFieldsStable ==
  [][\A id \in DOMAIN todos :
       (todos[id] # NoTodo /\ todos'[id] # NoTodo)
         => /\ todos'[id].experience_points = todos[id].experience_points
            /\ todos[id].completed => todos'[id].completed
    ]_vars

\* a completed task was marked a second time and is still completed, with
\* the points it was created with
C24_Witness ==
  \E id \in DOMAIN todos :
    /\ todos[id] # NoTodo
    /\ todos[id].completed /\ todos[id].completed_at = 2
    /\ todos[id].experience_points = expPoints(todos[id].difficulty)

\* C25: a user's stored experience never decreases: in every step of every
\* route (create, complete, delete, stats, register, login) each user's
\* experience is at least what it was before the step.
C25_ExperienceMonotone ==
  [][\A u \in DOMAIN users : users'[u].experience >= users[u].experience]_vars

\* a user gained experience, and a delete, a stats read and a login have run
C25_Witness ==
  /\ \E u \in Users : users[u].experience > initExp[u]
  /\ lastDelete.resp = DeletedOk
  /\ \E x \in StatReqs : sreq[x].pc = "done"
  /\ \E a \in AuthReqs : areq[a].kind = "login" /\ areq[a].resp.status = 200
  /\ pendingLogin = {}

\* a step of complete request r that writes the experience or the level of
\* its caller: the award, or the store running the level UPDATE it issued
WritesProgress(r) ==
  \/ req[r].pc = "awarding" /\ req'[r].pc = "reading"
  \/ \E w \in pendingLevel : w.req = r /\ w \notin pendingLevel'

\* a step of the login flow: a login request moves, or the store runs a
\* last_login UPDATE
LoginStep ==
  \/ \E a \in AuthReqs : areq'[a] # areq[a] /\ areq'[a].kind = "login"
  \/ pendingLogin' # pendingLogin /\ areq' = areq

\* the users that are there before and after the step keep their progress
ProgressKept ==
  \A u \in DOMAIN users : /\ users'[u].experience = users[u].experience
                          /\ users'[u].level = users[u].level

\* C26 (frame): a step that changes a user's experience or level is a step
\* of a complete request issued by that user on a task of that user; a step
\* of the login flow changes nothing but last_login.
C26_FrameOnly ==
  [][ /\ \A u \in DOMAIN users :
           (users'[u].experience # users[u].experience \/ users'[u].level # users[u].level)
             => \E r \in DOMAIN req :
                  req[r].userId = u /\ req[r].kind = "own" /\ WritesProgress(r)
      /\ LoginStep =>
           /\ ProgressKept /\ users' = users /\ todos' = todos /\ unlocks' = unlocks
           /\ DOMAIN accounts' = DOMAIN accounts
           /\ \A u \in DOMAIN accounts :
                [accounts'[u] EXCEPT !.last_login = 0] = [accounts[u] EXCEPT !.last_login = 0]
    ]_vars

\* C26: a user's experience and level change only as the effect of a
\* successful complete issued by that user on that user's own task: the
\* frame above holds, and a request that added its award and has ended has
\* answered with success.
C26_OnlyBySuccessfulComplete ==
  \A r \in DOMAIN req :
    (req[r].awarded /\ req[r].pc \notin {"idle", "marking", "awarding", "reading"})
      => (Succeeded(r) /\ req[r].kind = "own")

\* C27: a failed catalog query or a failed unlock INSERT of the evaluation
\* never changes the enclosing stats response: the response, once sent, stays
\* as it is in every later step; it is a success response with the profile
\* and the completed count the request read, and it lists the achievements
\* the user held when the request arrived.
C27_EvaluationFailureNonFatal ==
  [][\A x \in StatReqs :
       sreq[x].pc = "done" =>
         /\ sreq'[x].pc = "done" /\ sreq'[x].resp = sreq[x].resp
         /\ sreq[x].resp.status = 200
         /\ sreq[x].resp.level = sreq[x].user.level
         /\ sreq[x].resp.experience = sreq[x].user.experience
         /\ sreq[x].resp.totalTodos = sreq[x].completedCount
         /\ \A a \in sreq[x].heldAtStart : sreq[x].resp.achievements[a] >= 1
    ]_vars

\* a statement of a read's evaluation failed; the read answered 200 with an
\* achievement the user already held
C27_Witness ==
  \E x \in StatReqs :
    /\ sreq[x].pc = "done" /\ sreq[x].evalFailed
    /\ EvaluationFinished(sreq[x].userId)
    /\ sreq[x].resp.status = 200
    /\ \E a \in sreq[x].heldAtStart : sreq[x].resp.achievements[a] >= 1

\* C28: a user's listing holds exactly the tasks that user created and has
\* not deleted: every listed row is the user's own, a create by the user adds
\* the new task and nothing else, a delete by the user of an own task removes
\* that task and nothing else, and no other step changes the listing; a delete
\* of an absent or foreign-owned task answers 404 and leaves every listing,
\* the owner's included, as it was.
C28_ListingIsolated ==
  [][\A u \in Users :
       LET before == ListTodos(todos, u)
           after  == ListTodos(todos', u)
           creates == \E d \in Difficulties : CreateTodo(u, d)
           deletes == {id \in TodoIds : Delete(u, id) /\ TargetKind(todos, id, u) = "own"}
       IN  /\ \A i \in before : todos[i].user_id = u
           /\ creates => after = before \cup {lastID'}
           /\ \A id \in deletes : after = before \ {id}
           /\ (~creates /\ deletes = {}) => after = before
           /\ \A id \in TodoIds :
                (Delete(u, id) /\ TargetKind(todos, id, u) \in {"absent", "foreign"})
                  => /\ lastDelete'.resp = NotFound
                     /\ \A v \in Users : ListTodos(todos', v) = ListTodos(todos, v)
                     /\ todos'[id] = todos[id]
    ]_vars

\* one task was deleted by its owner, a delete of another user's task was
\* answered 404 and that task is still in its owner's listing and in no other
C28_Witness ==
  \E u, v \in Users :
    /\ u # v
    /\ \E id \in 1..lastID : todos[id] = NoTodo
    /\ lastDelete.kind = "foreign" /\ lastDelete.resp = NotFound
    /\ ListTodos(todos, v) # {}
    /\ ListTodos(todos, u) = {}

\* the login half of C29: a login naming a registered identity that is
\* answered with an error gets the answer of a login naming an identity
\* nobody registered
C29_LoginAlike ==
  \A a, b \in AuthReqs :
    ( /\ areq[a].pc = "done" /\ areq[b].pc = "done"
      /\ areq[a].kind = "login" /\ areq[b].kind = "login"
      /\ areq[a].existed /\ ~areq[b].existed
      /\ areq[a].resp.status >= 400 )
      => areq[a].resp = areq[b].resp

\* C29: no error response of register or login tells whether the identity
\* exists: an error response to a request naming an existing identity equals
\* the response to a request of the same kind naming a non-existing one.
C29_NoExistenceOracle ==
  \A a, b \in AuthReqs :
    ( /\ areq[a].pc = "done" /\ areq[b].pc = "done"
      /\ areq[a].kind = areq[b].kind
      /\ areq[a].existed /\ ~areq[b].existed
      /\ areq[a].resp.status >= 400 )
      => areq[a].resp = areq[b].resp

\* the answered register requests that asked for the username and email of a
SameRegister(a) ==
  {b \in AuthReqs : /\ areq[a].kind = "register"
                    /\ areq[b].pc = "done" /\ areq[b].kind = "register"
                    /\ areq[b].username = areq[a].username
                    /\ areq[b].email = areq[a].email}

\* C30: of the register requests for one username and email, overlapping or
\* not, every one is answered 201 or 400 'already exists', at most one is
\* answered 201, and exactly one is unless a row of another origin already
\* holds the username or the email; no two rows of the users table share a
\* username or an email.
C30_OneRegisterWins ==
  /\ \A i, j \in DOMAIN accounts :
       i # j => /\ accounts[i].username # accounts[j].username
                /\ accounts[i].email # accounts[j].email
  /\ \A a \in AuthReqs :
       (areq[a].pc = "done" /\ areq[a].kind = "register") =>
         LET group   == SameRegister(a)
             winners == {b \in group : areq[b].resp.status = 201}
             others  == UniqueConflicts(accounts, areq[a].username, areq[a].email)
                          \ {areq[b].userId : b \in winners}
         IN  /\ \A b \in group \ winners : areq[b].resp = AlreadyExists
             /\ Cardinality(winners) <= 1
             /\ others = {} => Cardinality(winners) = 1
             /\ \A b \in winners :
                  /\ accounts[areq[b].userId].username = areq[b].username
                  /\ accounts[areq[b].userId].email = areq[b].email

\* two registers for the same free username and email overlapped: the one that
\* arrived second was inserted first and answered 201, the other 400
C30_Witness ==
  \E a, b \in AuthReqs :
    /\ a < b /\ b \in SameRegister(a) /\ a \in SameRegister(b)
    /\ areq[b].resp.status = 201
    /\ areq[a].resp = AlreadyExists
    /\ Len(accounts) = NumUsers + 1

\* C31: when the UPDATE that marks the task completed fails, the request ends
\* with the error response 500 'Error completing todo'; the step of the
\* failure changes no user and no task, and the request never adds its award
\* and never issues a level write.
C31_FailedMarkIsFailure ==
  [][\A r \in Reqs :
       /\ (req'[r].markFailed /\ ~req[r].markFailed)
            => /\ users' = users /\ todos' = todos /\ pendingLevel' = pendingLevel
               /\ req'[r].pc = "done" /\ req'[r].resp.status = 500
       /\ req[r].markFailed
            => /\ req[r].pc = "done" /\ req[r].resp = ErrorCompleting
               /\ ~req[r].awarded
               /\ \A w \in pendingLevel : w.req # r
               /\ req'[r] = req[r]
    ]_vars

\* the mark of a request failed after its lookup had found an own open task;
\* the request ended with the error and the caller's experience and level are
\* the ones stored at its lookup
C31_Witness ==
  \E r \in Reqs :
    /\ req[r].markFailed /\ req[r].pc = "done" /\ req[r].resp = ErrorCompleting
    /\ req[r].kind = "own"
    /\ users[req[r].userId].experience = req[r].startExp
    /\ users[req[r].userId].level = req[r].startLevel
    /\ \A q \in Reqs \ {r} : req[q].pc = "done"

\* C32: a user's stored level never decreases: no step replaces the stored
\* level of any user with a smaller value.
C32_LevelMonotone ==
  [][\A u \in DOMAIN users : users'[u].level >= users[u].level]_vars

\* the increment of request r carried the stored experience across a multiple
\* of 100
Crossed(r) == Level(req[r].expAfter) > Level(req[r].expBefore)

\* C33: when two successful completions of the same user, each of its own
\* task, overlapped and exactly one of their increments carried the experience across a multiple
\* of 100, that one's response has levelUp = true and the other's has
\* levelUp = false.
C33_OnlyCrosserLevelsUp ==
  \A r1, r2 \in Reqs :
    ( /\ r1 # r2
      /\ Succeeded(r1) /\ Succeeded(r2)
      /\ req[r1].userId = req[r2].userId /\ req[r1].todoId # req[r2].todoId
      /\ req[r1].overlapped /\ req[r2].overlapped
      /\ req[r1].awarded /\ req[r2].awarded
      /\ Crossed(r1) /\ ~Crossed(r2) )
      => (req[r1].resp.levelUp /\ ~req[r2].resp.levelUp)

\* C34: experience is awarded only for a task the request itself marked
\* completed: a request whose mark-completed UPDATE matched no row (the task
\* was deleted after the lookup) neither adds its award to the user's
\* experience nor reports success.
C34_AwardOnlyForMarkedTask ==
  \A r \in Reqs :
    (req[r].awarded \/ Succeeded(r)) => req[r].changes = 1

\* the signal of the given type as stats request x read it (index.ts:85)
Signal(x, type) ==
  CASE type = "tasks_completed" -> sreq[x].completedCount
    [] type = "streak"          -> sreq[x].user.streak_days
    [] type = "level"           -> sreq[x].user.level

\* C35: every unlock row the evaluation creates is for the user whose stats
\* were read and for a catalog achievement whose required_value is <= the
\* signal of the achievement's own type as that stats request read it; nothing
\* else creates unlock rows.
C35_UnlockSound ==
  [][\A u \in Users, a \in AchIds :
       unlocks'[u][a] > unlocks[u][a] =>
         \E i \in pendingInsert :
           /\ ApplyInsert(i)
           /\ i.userId = u /\ i.ach = a
           /\ sreq[i.sreq].pc = "done" /\ sreq[i.sreq].userId = u
           /\ Achievements[a].required_value <= Signal(i.sreq, Achievements[a].type)
    ]_vars

\* a read with 12 completed tasks at level 1 had its evaluation finished: the
\* user holds 'Task Master' (10 tasks) and not 'Level 5', whose threshold the
\* completed count exceeds
C35_Witness ==
  \E x \in StatReqs :
    /\ sreq[x].pc = "done" /\ EvaluationFinished(sreq[x].userId)
    /\ sreq[x].completedCount >= 10 /\ sreq[x].user.level < 5
    /\ \E a \in AchIds : /\ Achievements[a].name = "Task Master"
                         /\ unlocks[sreq[x].userId][a] >= 1
    /\ \E b \in AchIds : /\ Achievements[b].name = "Level 5"
                         /\ unlocks[sreq[x].userId][b] = 0

\* database.ts:71
FirstStep == CHOOSE a \in AchIds : Achievements[a].name = "First Step"

\* a stats read of the user of complete request r, which marked its task and
\* was answered with success before the read arrived, has been answered and its
\* evaluation has finished
ReadAfterCompletion(r, x) ==
  /\ Succeeded(r) /\ req[r].changes = 1
  /\ sreq[x].pc = "done" /\ sreq[x].userId = req[r].userId
  /\ EvaluationFinished(sreq[x].userId)

\* the part of C36 without deletes: while the completed task is kept, the
\* read after the completion leaves 'First Step' unlocked
C36_UnlockedWhileKept ==
  \A r \in Reqs, x \in StatReqs :
    (ReadAfterCompletion(r, x) /\ todos[req[r].todoId] # NoTodo)
      => unlocks[req[r].userId][FirstStep] >= 1

\* C36: once a user has successfully completed a task, a stats read issued
\* afterwards whose evaluation has finished leaves the tasks_completed
\* achievement with required_value 1 unlocked, whether or not the completed
\* task was deleted before the read.
C36_UnlockedDespiteDelete ==
  \A r \in Reqs, x \in StatReqs :
    ReadAfterCompletion(r, x) => unlocks[req[r].userId][FirstStep] >= 1

\* the step is one of a stats read or of its evaluator
StatsStep ==
  \/ sreq' # sreq \/ pendingQuery' # pendingQuery
  \/ pendingInsert' # pendingInsert \/ unlocks' # unlocks

\* C37: a stats read and its evaluation change nothing but unlock rows of the
\* requesting user: their steps leave every user's experience, level and
\* streak_days, every task and every account as they were, and an unlock row
\* they add is for the user of the read that started the evaluation; a stats
\* read for a user id without a row is answered 404 'User not found' in its
\* first step, starts no evaluation and creates no unlock row.
C37_StatsFrame ==
  [][ /\ StatsStep =>
           /\ users' = users /\ todos' = todos /\ accounts' = accounts
           /\ \A u \in Users, a \in AchIds :
                unlocks'[u][a] # unlocks[u][a] =>
                  /\ unlocks'[u][a] = unlocks[u][a] + 1
                  /\ \E i \in pendingInsert :
                       i.userId = u /\ i.ach = a /\ sreq[i.sreq].userId = u
      /\ \A x \in StatReqs :
           /\ (sreq[x].pc = "idle" /\ sreq'[x].pc # "idle"
               /\ sreq'[x].userId \notin DOMAIN users)
                => /\ sreq'[x].pc = "done"
                   /\ sreq'[x].resp = [status |-> 404, message |-> "User not found"]
                   /\ pendingQuery' = pendingQuery /\ pendingInsert' = pendingInsert
                   /\ unlocks' = unlocks
           /\ (sreq[x].pc = "done" /\ sreq[x].userId \notin DOMAIN users)
                => /\ sreq'[x] = sreq[x]
                   /\ \A q \in pendingQuery : q.sreq # x
                   /\ \A i \in pendingInsert : i.sreq # x
    ]_vars

\* a read for a user id without a row was answered 404 while a user who has
\* completed a task holds no unlock row and no evaluation is outstanding
C37_Witness ==
  \E x \in StatReqs :
    /\ sreq[x].pc = "done" /\ sreq[x].userId = NoSuchUser
    /\ sreq[x].resp = UserNotFound
    /\ pendingQuery = {} /\ pendingInsert = {}
    /\ \E u \in Users : CompletedCount(todos, u) >= 1
    /\ \A u \in Users, a \in AchIds : unlocks[u][a] = 0

\* a read of a user with a completed task was answered 200 and its evaluation
\* added an unlock row for that user, whose experience and level are the ones
\* the read returned
C37_WitnessUnlock ==
  \E x \in StatReqs :
    /\ sreq[x].pc = "done" /\ sreq[x].resp.status = 200
    /\ EvaluationFinished(sreq[x].userId)
    /\ \E a \in AchIds : unlocks[sreq[x].userId][a] >= 1

\* C38: every complete request produces a response on every path through its
\* callback chain: a request that has arrived and has no callback left to run
\* has been answered with success (200), Conflict (400), NotFound (404) or an
\* error (500).
C38_EveryPathResponds ==
  \A r \in Reqs :
    (req[r].pc # "idle" /\ ~InFlight(r)) => req[r].resp.status \in {200, 400, 404, 500}

====
